---- MODULE Spec2Model ----
(***************************************************************************)
(* A model of the ThingsBoard push tool (src/src/main.rs): the loader of   *)
(* the data file, the transformer of one record into telemetry values,     *)
(* the synthesizer of random values, the dispatcher of one telemetry       *)
(* message and the send loop of main.                                      *)
(*                                                                         *)
(* Abstractions.  A file is its parsed JSON tree (or the fact that it      *)
(* cannot be read or parsed).  Floating-point numbers are counted in       *)
(* quarters (FloatNum(6) is 1.5), so that values below 0.5 exist.  The    *)
(* 64-bit integers of JSON numbers are scaled to IntBits bits.  The loop   *)
(* counters                                                                *)
(* (count, sent_count, count * len) are u64 in the code; every value they  *)
(* take within the bounds of this model is far below 2^64, so they are     *)
(* plain naturals here and no wrap-around of them is modelled.             *)
(***************************************************************************)
EXTENDS Integers, Sequences, FiniteSets, TLC

VARIABLES
    env,          \* the environment variables read by load_config
    file,         \* the data file named on the command line
    count,        \* --count
    interval,     \* --interval
    pc,           \* where main is
    config,       \* Option<Config>: the result of load_config
    data,         \* data_result.data
    random_key,   \* data_result.random_key
    index,        \* index of the for loop over data (0-based)
    sent_count,   \* sent_count of main
    result,       \* the Result the last send_telemetry call returned
    request,      \* the HTTP POST the last send_telemetry call issued, if any
    response,     \* what that POST got back: a status, or a transport error
    rounds,       \* history: full passes over data completed so far
    attempted,    \* history: the indices send_telemetry was called on this round
    round_start,  \* history: sent_count when this round started
    round_fails,  \* history: the calls of this round that returned Err
    original,     \* the argument of a call of generate_random_value alone
    synthesized   \* what that call yielded

vars == <<env, file, count, interval, pc, config, data, random_key, index,
          sent_count, result, request, rounds, attempted, round_start,
          round_fails, original, synthesized, response>>

----------------------------------------------------------------------------
(* Bounds of the model *)

\* the floats given to generate_random_value alone: -MaxFloat..MaxFloat quarters
MaxFloat == 12

\* --count ranges over 0..MaxCount
MaxCount == 2

\* width of the scaled signed/unsigned integers of JSON numbers (64 in the code)
IntBits == 5

\* rounds the model follows when the loop does not end by itself
MaxRounds == MaxCount + 2

Pow2(n) == 2 ^ n
I64_MIN == -Pow2(IntBits - 1)
I64_MAX == Pow2(IntBits - 1) - 1
U64_MAX == Pow2(IntBits) - 1

----------------------------------------------------------------------------
(* Rust's Option and Result, and a panic of the process *)

None == [t |-> "none"]
Some(x) == [t |-> "some", x |-> x]
Ok(x) == [t |-> "ok", x |-> x]
Err(e) == [t |-> "err", e |-> e]
Panic == [t |-> "panic"]
Unit == "()"

(* serde_json::Value.  A number is an integer (PosInt/NegInt of serde_json: *)
(* I64_MIN..U64_MAX) or a float, counted in quarters.                       *)
Null == [t |-> "null"]
Bool(b) == [t |-> "bool", b |-> b]
IntNum(i) == [t |-> "number", n |-> [k |-> "int", i |-> i]]
FloatNum(q) == [t |-> "number", n |-> [k |-> "float", q |-> q]]
String(s) == [t |-> "string", s |-> s]
Array(a) == [t |-> "array", a |-> a]
Object(o) == [t |-> "object", o |-> o]

EmptyMap == [x \in {} |-> Null]

Max(a, b) == IF a >= b THEN a ELSE b

----------------------------------------------------------------------------
(* Random Value Synthesizer: generate_random_value.  Every operator that   *)
(* can fail, panic or draw at random yields the SET of its outcomes.        *)

\* Number::as_i64: an integer that fits the signed range
as_i64(num) ==
    IF num.k = "int" /\ num.i <= I64_MAX THEN Some(num.i) ELSE None

\* Number::as_f64 (in quarters): always Some without arbitrary_precision
as_f64(num) ==
    IF num.k = "int" THEN Some(4 * num.i) ELSE Some(num.q)

\* int_val * 2 on i64: on overflow a debug build panics, a release build wraps
WrapI64(x) == ((x - I64_MIN) % Pow2(IntBits)) + I64_MIN

mul_i64(a, b) ==
    IF a * b >= I64_MIN /\ a * b <= I64_MAX
    THEN {Ok(a * b)}
    ELSE {Panic, Ok(WrapI64(a * b))}

\* rng.gen_range(low..=high): panics on an empty range
gen_range(low, high) ==
    IF low > high THEN {Panic} ELSE {Ok(r) : r \in low..high}

\* the fallback upper bound 100.0 of the float case, in quarters
FloatFallbackMax == 400

generate_random_value(original_value) ==
    IF original_value.t = "number"
    THEN LET num == original_value.n IN
         IF as_i64(num).t = "some"
         THEN LET int_val == as_i64(num).x IN
              UNION { IF m.t = "panic" THEN {Panic}
                      ELSE { IF r.t = "panic" THEN Panic ELSE Ok(IntNum(r.x))
                             : r \in gen_range(1, Max(1, m.x)) }
                      : m \in mul_i64(int_val, 2) }
         ELSE IF as_f64(num).t = "some"
         THEN LET float_val == as_f64(num).x
                  max_val == IF float_val > 0 THEN float_val * 2
                             ELSE FloatFallbackMax
              IN { IF r.t = "panic" THEN Panic ELSE Ok(FloatNum(r.x))
                   : r \in gen_range(4, max_val) }
         ELSE {Ok(original_value)}
    ELSE {Ok(original_value)}

----------------------------------------------------------------------------
(* Value Transformer: extract_telemetry_values *)

\* mutant: the new value is stored in a fresh object, the other fields of
\* the nested object are lost
extract_entry_fresh(value, rkey) ==
    IF rkey.t = "some" /\ value.t = "object" /\ rkey.x \in DOMAIN value.o
    THEN { IF r.t = "ok" THEN Ok(Object(rkey.x :> r.x)) ELSE r
           : r \in generate_random_value(value.o[rkey.x]) }
    ELSE {Ok(value)}

\* mutant: a nested object without the random field gets the field
extract_entry_adds(value, rkey) ==
    IF rkey.t = "some" /\ value.t = "object"
    THEN IF rkey.x \in DOMAIN value.o
         THEN { IF r.t = "ok"
                THEN Ok(Object([value.o EXCEPT ![rkey.x] = r.x]))
                ELSE r
                : r \in generate_random_value(value.o[rkey.x]) }
         ELSE {Ok(Object((rkey.x :> IntNum(1)) @@ value.o))}
    ELSE {Ok(value)}

\* one iteration of the for loop: the value stored under `key`
extract_entry(value, rkey) ==
    IF rkey.t = "some" /\ value.t = "object"
    THEN LET random_field == rkey.x
             nested_obj == value.o
         IN IF random_field \in DOMAIN nested_obj
            THEN { IF r.t = "ok"
                   THEN Ok(Object([nested_obj EXCEPT ![random_field] = r.x]))
                   ELSE r
                   : r \in generate_random_value(nested_obj[random_field]) }
            ELSE {Ok(value)}
    ELSE {Ok(value)}

\* the for loop over the entries `keys` of obj not yet visited; the order of
\* the visits does not change the map that is built
RECURSIVE extract_loop(_, _, _, _)
extract_loop(obj, keys, rkey, values) ==
    IF keys = {} THEN {Ok(values)}
    ELSE LET key == CHOOSE k \in keys : TRUE IN
         UNION { IF e.t = "ok"
                 THEN extract_loop(obj, keys \ {key}, rkey,
                                   (key :> e.x) @@ values)
                 ELSE {e}
                 : e \in extract_entry(obj[key], rkey) }

\* mutant: an empty map of values is let through
check_values_any(r) == r

\* if values.is_empty() { bail!(..) }  Ok(values)
check_values(r) ==
    IF r.t = "ok" /\ DOMAIN r.x = {}
    THEN Err("no telemetry values extracted")
    ELSE r

extract_telemetry_values(record, rkey) ==
    IF record.t = "object"
    THEN { check_values(r)
           : r \in extract_loop(record.o, DOMAIN record.o, rkey, EmptyMap) }
    ELSE {Err("record is not a JSON object")}

----------------------------------------------------------------------------
(* Record Loader: load_data_file *)

\* mutant: the field is looked up under another name and never found
extract_random_key_misnamed(obj) ==
    IF "randomKey" \in DOMAIN obj /\ obj["randomKey"].t = "string"
    THEN Some(obj["randomKey"].s)
    ELSE None

\* obj.get("random_key").and_then(|v| v.as_str()).map(|s| s.to_string())
extract_random_key(obj) ==
    IF "random_key" \in DOMAIN obj /\ obj["random_key"].t = "string"
    THEN Some(obj["random_key"].s)
    ELSE None

\* mutant: an empty record sequence is let through
check_not_empty_any(loaded) == loaded

\* if result.data.is_empty() { bail!(..) }  Ok(result)
check_not_empty(loaded) ==
    IF loaded.t = "ok" /\ Len(loaded.x.data) = 0
    THEN Err("no data in the data file")
    ELSE loaded

load_data_file(f) ==
    IF ~f.readable THEN Err("cannot read the data file")
    ELSE IF f.content.t = "invalid" THEN Err("cannot parse the data file")
    ELSE LET json_value == f.content
             loaded ==
                 IF json_value.t = "array"
                 THEN Ok([random_key |-> None, data |-> json_value.a])
                 ELSE IF json_value.t = "object"
                 THEN LET obj == json_value.o IN
                      IF "data" \in DOMAIN obj /\ obj["data"].t = "array"
                      THEN Ok([random_key |-> extract_random_key(obj),
                               data |-> obj["data"].a])
                      ELSE Err("no 'data' field, or 'data' is not an array")
                 ELSE Err("unsupported JSON format")
         IN check_not_empty(loaded)

----------------------------------------------------------------------------
(* load_config *)

load_config(e) ==
    IF e.server.t = "none" THEN Err("no environment variable 'server'")
    ELSE IF e.device_token.t = "none"
    THEN Err("no environment variable 'device_token'")
    ELSE Ok([server |-> e.server.x, device_token |-> e.device_token.x])

\* &config.device_token[..8] of main panics on a shorter token
TokenPrefixLen == 8

----------------------------------------------------------------------------
(* Telemetry Dispatcher: send_telemetry *)

\* SystemTime::now() in seconds since the epoch; a clock set before the
\* epoch makes duration_since(UNIX_EPOCH) fail
ClockReadings == {-1, 1}

\* Local::now().format("%Y-%m-%d %H:%M:%S") of a reading in 0..9
FormatLocal(now) == "1970-01-01 00:00:0" \o ToString(now)

\* what client.post(..).send().await yields: a transport error or a response
StatusCodes == {200, 404}
HttpOutcomes == {Err("transport")} \cup {Ok(status) : status \in StatusCodes}

\* mutant: every status from 200 on counts as a success
is_success_lax(status) == status >= 200

\* StatusCode::is_success
is_success(status) == status >= 200 /\ status <= 299

\* TelemetryData as serde serializes it: one JSON field per struct field
TelemetryJson(telemetry) ==
    Object([ts |-> IntNum(telemetry.ts),
            values |-> Object(telemetry.values),
            time |-> String(telemetry.time)])

\* mutant: the send time is added only when the record has no such field
insert_send_time_if_absent(values, send_time) ==
    values @@ ("send_time" :> String(send_time))

\* values.insert("send_time".to_string(), Value::String(send_time.clone()))
insert_send_time(values, send_time) ==
    ("send_time" :> String(send_time)) @@ values

\* the outcomes of one call: the Result it returns (or a panic) and the
\* POST it issued, if it got that far
send_telemetry(cfg, item, rkey) ==
    UNION { IF now < 0
            THEN {[result |-> Err("cannot get the system time"), request |-> None,
                   response |-> None]}
            ELSE LET timestamp == now * 1000
                     send_time == FormatLocal(now)
                 IN UNION {
                      IF ex.t # "ok"
                      THEN {[result |-> ex, request |-> None, response |-> None]}
                      ELSE LET values == insert_send_time(ex.x, send_time)
                               telemetry == [ts |-> timestamp, values |-> values,
                                             time |-> send_time]
                               url == cfg.server \o "/api/v1/" \o cfg.device_token
                                      \o "/telemetry"
                               post == [url |-> url,
                                        content_type |-> "application/json",
                                        body |-> TelemetryJson(telemetry)]
                           IN { [result |->
                                    IF resp.t = "err"
                                    THEN Err("sending the HTTP request failed")
                                    ELSE IF is_success(resp.x) THEN Ok(Unit)
                                    ELSE Err("HTTP request failed: "
                                             \o ToString(resp.x)),
                                 request |-> Some(post),
                                 response |-> Some(resp)]
                                : resp \in HttpOutcomes }
                      : ex \in extract_telemetry_values(item, rkey) }
            : now \in ClockReadings }

----------------------------------------------------------------------------
(* The inputs of a run *)

Envs ==
    { [server |-> None, device_token |-> Some("A1B2C3D4E5F6")],
      [server |-> Some("http://tb:8080"), device_token |-> None],
      [server |-> Some("http://tb:8080"), device_token |-> Some("short")],
      [server |-> Some("http://tb:8080"), device_token |-> Some("A1B2C3D4E5F6")] }

Intervals == {0, 5}

RecSensor == Object([sensor |-> Object([v |-> IntNum(5), unit |-> String("C")])])
RecFlat == Object([temp |-> IntNum(3), send_time |-> String("old")])
RecMixed == Object([a |-> Object([v |-> FloatNum(6)]),
                    b |-> Object([v |-> String("x"), w |-> IntNum(2)]),
                    c |-> Null,
                    d |-> Object([u |-> IntNum(5)])])
RecEmptyKey == Object([s |-> Object(("" :> IntNum(1)) @@ [v |-> IntNum(2)])])
RecSmallFloat == Object([sensor |-> Object([v |-> FloatNum(1)])])
RecEmpty == Object(EmptyMap)
RecNotObject == IntNum(7)

Readable(content) == [readable |-> TRUE, content |-> content]

Files ==
    { [readable |-> FALSE, content |-> Null],
      Readable([t |-> "invalid"]),
      Readable(String("data")),
      Readable(Object([random_key |-> String("v")])),
      Readable(Object([data |-> IntNum(1), random_key |-> String("v")])),
      Readable(Array(<<>>)),
      Readable(Object([data |-> Array(<<>>)])),
      Readable(Array(<<RecSensor, RecFlat, RecMixed>>)),
      Readable(Array(<<RecNotObject, RecSensor, RecEmpty>>)),
      Readable(Object([data |-> Array(<<RecSensor>>)])),
      Readable(Object([data |-> Array(<<RecSensor, RecMixed>>),
                       random_key |-> String("v")])),
      Readable(Object([data |-> Array(<<RecEmptyKey, RecFlat>>),
                       random_key |-> String("")])),
      Readable(Object([data |-> Array(<<RecSensor>>),
                       random_key |-> IntNum(1)])),
      Readable(Object([data |-> Array(<<RecSensor, RecSmallFloat>>),
                       random_key |-> String("v")])) }

----------------------------------------------------------------------------
(* main *)

Init ==
    /\ env \in Envs
    /\ file \in Files
    /\ count \in 0..MaxCount
    /\ interval \in Intervals
    /\ pc = "load_config"
    /\ config = None
    /\ data = <<>>
    /\ random_key = None
    /\ index = 0
    /\ sent_count = 0
    /\ result = None
    /\ request = None
    /\ rounds = 0
    /\ attempted = <<>>
    /\ round_start = 0
    /\ round_fails = 0
    /\ original = Null
    /\ synthesized = None
    /\ response = None

\* let config = load_config()?; and the println! of the token's first bytes
LoadConfig ==
    /\ pc = "load_config"
    /\ LET r == load_config(env) IN
       IF r.t = "err"
       THEN pc' = "failed" /\ UNCHANGED config
       ELSE /\ config' = Some(r.x)
            /\ pc' = IF Len(r.x.device_token) < TokenPrefixLen
                     THEN "panicked" ELSE "load_data"
    /\ UNCHANGED <<response, original, synthesized, env, file, count, interval, data, random_key, index,
                   sent_count, result, request, rounds, attempted,
                   round_start, round_fails>>

\* let data_result = load_data_file(data_file)?; ... let mut sent_count = 0;
LoadDataFile ==
    /\ pc = "load_data"
    /\ LET r == load_data_file(file) IN
       IF r.t = "err"
       THEN pc' = "failed" /\ UNCHANGED <<data, random_key>>
       ELSE /\ data' = r.x.data
            /\ random_key' = r.x.random_key
            /\ pc' = "send"
    /\ sent_count' = 0
    /\ index' = 0
    /\ UNCHANGED <<response, original, synthesized, env, file, count, interval, config, result, request,
                   rounds, attempted, round_start, round_fails>>

\* mutant: a failed send is counted as sent
sent_after_always(res, sent) == sent + 1

\* the match on the Result of send_telemetry: Ok(_) => sent_count += 1
sent_after(res, sent) == IF res.t = "ok" THEN sent + 1 ELSE sent

\* mutant: the pause between two items is taken for interval = 0 as well
pause_between_always(ivl, idx, len) == idx < len - 1

\* if interval > 0 && index < data_result.data.len() - 1 { sleep(..) }
pause_between(ivl, idx, len) == ivl > 0 /\ idx < len - 1

\* mutant: a record whose send failed is tried again
SendItemRetry(outs) ==
    /\ pc = "send"
    /\ \E out \in outs :
          /\ result' = out.result
          /\ request' = out.request
          /\ response' = out.response
          /\ attempted' = Append(attempted, index)
          /\ IF out.result.t = "panic"
             THEN /\ pc' = "panicked"
                  /\ UNCHANGED <<sent_count, index, round_fails>>
             ELSE IF out.result.t = "err"
             THEN /\ pc' = "send"
                  /\ round_fails' = round_fails + 1
                  /\ UNCHANGED <<sent_count, index>>
             ELSE /\ sent_count' = sent_after(out.result, sent_count)
                  /\ UNCHANGED round_fails
                  /\ IF pause_between(interval, index, Len(data))
                     THEN pc' = "sleep_item" /\ UNCHANGED index
                     ELSE IF index < Len(data) - 1
                     THEN pc' = "send" /\ index' = index + 1
                     ELSE pc' = "check" /\ UNCHANGED index
    /\ UNCHANGED <<original, synthesized, env, file, count, interval, config,
                   data, random_key, rounds, round_start>>

\* mutant: the error of send_telemetry is propagated with `?`, main returns
SendItemPropagate(outs) ==
    /\ pc = "send"
    /\ \E out \in outs :
          /\ result' = out.result
          /\ request' = out.request
          /\ response' = out.response
          /\ attempted' = Append(attempted, index)
          /\ IF out.result.t = "panic"
             THEN /\ pc' = "panicked"
                  /\ UNCHANGED <<sent_count, index, round_fails>>
             ELSE IF out.result.t = "err"
             THEN /\ pc' = "failed"
                  /\ round_fails' = round_fails + 1
                  /\ UNCHANGED <<sent_count, index>>
             ELSE /\ sent_count' = sent_after(out.result, sent_count)
                  /\ UNCHANGED round_fails
                  /\ IF pause_between(interval, index, Len(data))
                     THEN pc' = "sleep_item" /\ UNCHANGED index
                     ELSE IF index < Len(data) - 1
                     THEN pc' = "send" /\ index' = index + 1
                     ELSE pc' = "check" /\ UNCHANGED index
    /\ UNCHANGED <<original, synthesized, env, file, count, interval, config,
                   data, random_key, rounds, round_start>>

\* one iteration of the for loop, up to its sleep; `outs` are the outcomes
\* of the call of send_telemetry
SendItemWith(outs) ==
    /\ pc = "send"
    /\ \E out \in outs :
          /\ result' = out.result
          /\ request' = out.request
          /\ response' = out.response
          /\ attempted' = Append(attempted, index)
          /\ IF out.result.t = "panic"
             THEN /\ pc' = "panicked"
                  /\ UNCHANGED <<sent_count, index, round_fails>>
             ELSE /\ sent_count' = sent_after(out.result, sent_count)
                  /\ round_fails' = IF out.result.t = "err"
                                    THEN round_fails + 1 ELSE round_fails
                  /\ IF pause_between(interval, index, Len(data))
                     THEN pc' = "sleep_item" /\ UNCHANGED index
                     ELSE IF index < Len(data) - 1
                     THEN pc' = "send" /\ index' = index + 1
                     ELSE pc' = "check" /\ UNCHANGED index
    /\ UNCHANGED <<original, synthesized, env, file, count, interval, config,
                   data, random_key, rounds, round_start>>

SendItem == SendItemWith(send_telemetry(config.x, data[index + 1], random_key))

\* the sleep between two items returns: the next iteration
WakeItem ==
    /\ pc = "sleep_item"
    /\ index' = index + 1
    /\ pc' = "send"
    /\ UNCHANGED <<response, original, synthesized, env, file, count, interval, config, data, random_key,
                   sent_count, result, request, rounds, attempted,
                   round_start, round_fails>>

\* mutant: the exit test is strict, so a round is run too many
count_reached_strict(cnt, sent, len) == cnt > 0 /\ sent > cnt * len

\* mutant: the exit test asks for one round more than the target
count_reached_late(cnt, sent, len) == cnt > 0 /\ sent >= cnt * len + len

\* mutant: the exit test multiplies the target by the record count twice
count_reached_rounds(cnt, sent, len) == cnt > 0 /\ sent >= cnt * len * len

\* mutant: the exit test forgets that count = 0 means no end
count_reached_any(cnt, sent, len) == sent >= cnt * len

\* if count > 0 { if sent_count >= count * len { break; } }
count_reached(cnt, sent, len) == cnt > 0 /\ sent >= cnt * len

\* mutant: the pause between rounds is taken only in the endless mode
pause_round_endless(cnt, sent, len) == cnt = 0

\* if count == 0 || sent_count < count * len { sleep(..) }
pause_round(cnt, sent, len) == cnt = 0 \/ sent < cnt * len

\* the for loop starts over
StartRound ==
    /\ index' = 0
    /\ attempted' = <<>>
    /\ round_start' = sent_count
    /\ round_fails' = 0

\* the end of a pass over the data: break, or sleep before the next pass
CheckCount ==
    /\ pc = "check"
    /\ rounds' = rounds + 1
    /\ IF count_reached(count, sent_count, Len(data))
       THEN /\ pc' = "done"
            /\ UNCHANGED <<index, attempted, round_start, round_fails>>
       ELSE IF pause_round(count, sent_count, Len(data))
       THEN /\ pc' = "sleep_round"
            /\ UNCHANGED <<index, attempted, round_start, round_fails>>
       ELSE /\ rounds < MaxRounds
            /\ pc' = "send"
            /\ StartRound
    /\ UNCHANGED <<response, original, synthesized, env, file, count, interval, config, data, random_key,
                   sent_count, result, request>>

\* the sleep between two rounds returns: the next pass
WakeRound ==
    /\ pc = "sleep_round"
    /\ rounds < MaxRounds
    /\ pc' = "send"
    /\ StartRound
    /\ UNCHANGED <<response, original, synthesized, env, file, count, interval, config, data, random_key,
                   sent_count, result, request, rounds>>

Next ==
    \/ LoadConfig
    \/ LoadDataFile
    \/ SendItem
    \/ WakeItem
    \/ CheckCount
    \/ WakeRound

Spec == Init /\ [][Next]_vars

----------------------------------------------------------------------------
(* The runs in which every dispatch attempt succeeds: the configuration    *)
(* and the file load, every record can be sent, and every call of          *)
(* send_telemetry returns Ok.  The loop is the only thread of the program, *)
(* so it keeps running while it has a step to take.                        *)

CanSucceed(cfg, item, rkey) ==
    \E out \in send_telemetry(cfg, item, rkey) : out.result.t = "ok"

InitOk ==
    /\ Init
    /\ load_config(env).t = "ok"
    /\ Len(load_config(env).x.device_token) >= TokenPrefixLen
    /\ load_data_file(file).t = "ok"
    /\ LET loaded == load_data_file(file).x IN
       \A i \in 1..Len(loaded.data) :
          CanSucceed(load_config(env).x, loaded.data[i], loaded.random_key)

SendItemOk ==
    SendItemWith({out \in send_telemetry(config.x, data[index + 1], random_key) :
                     out.result.t = "ok"})

NextOk ==
    \/ LoadConfig
    \/ LoadDataFile
    \/ SendItemOk
    \/ WakeItem
    \/ CheckCount
    \/ WakeRound

OkSpec == InitOk /\ [][NextOk]_vars /\ WF_vars(NextOk)

----------------------------------------------------------------------------
(* Properties of the send loop *)

LoopPcs == {"send", "sleep_item", "check", "sleep_round", "done"}

\* calls of send_telemetry so far
Attempts == rounds * Len(data) + (IF pc = "send" \/ pc = "sleep_item" \/ pc = "check"
                                  THEN Len(attempted) ELSE 0)

\* the indices of a pass over the first n records, in file order
FirstIndices(n) == [j \in 1..n |-> j - 1]

C3_Endless ==
    /\ [](count = 0 => pc # "done")
    /\ [][count = 0 /\ pc = "check" => pc' = "sleep_round"]_vars
    /\ [][count = 0 /\ pc = "sleep_round" => pc' = "send" /\ index' = 0]_vars

\* C3 witness: count = 0, a round with successes and failures completed
\* after earlier rounds, and the loop pausing
C3_Witness ==
    /\ count = 0 /\ pc = "sleep_round" /\ rounds >= 2
    /\ sent_count > round_start /\ round_fails > 0

C5_OncePerRoundInOrder ==
    /\ [](pc \in LoopPcs
          => /\ attempted = FirstIndices(Len(attempted))
             /\ Len(attempted) = IF pc = "send" THEN index ELSE index + 1
             /\ (pc \in {"check", "sleep_round", "done"}
                 => Len(attempted) = Len(data)))
    /\ [][pc = "send" /\ result'.t = "err" /\ index < Len(data) - 1
          => /\ pc' \in {"send", "sleep_item"}
             /\ (pc' = "send" => index' = index + 1)]_vars
    /\ [][pc = "sleep_item" => pc' = "send" /\ index' = index + 1]_vars

\* C5 witness: a pass over three records that ends after two failures
C5_Witness ==
    /\ pc = "check" /\ attempted = <<0, 1, 2>> /\ round_fails = 2
    /\ sent_count = round_start + 1

----------------------------------------------------------------------------
(* Properties of the failures *)

ClockErr == Err("cannot get the system time")

BadRecord(item) == item.t # "object" \/ DOMAIN item.o = {}

\* C7: an attempt on a record that is not a JSON object, or is an object
\* without fields, returns Err, issues no POST, leaves sent_count unchanged
\* and is followed by the next record.
C7_BadRecordSkipped ==
    [][pc = "send" /\ BadRecord(data[index + 1]) /\ attempted' # attempted
       => /\ result'.t = "err"
          /\ request' = None
          /\ sent_count' = sent_count
          /\ pc' = IF pause_between(interval, index, Len(data))
                   THEN "sleep_item"
                   ELSE IF index < Len(data) - 1 THEN "send" ELSE "check"
          /\ (pc' = "send" => index' = index + 1)]_vars

\* C7 witness: a pass over a non-object, a good record and an object
\* without fields: two failures, one send, the last one the empty map
C7_Witness ==
    /\ pc = "check" /\ data = <<RecNotObject, RecSensor, RecEmpty>>
    /\ result = Err("no telemetry values extracted") /\ request = None
    /\ round_fails = 2 /\ sent_count = round_start + 1

\* the startup failures of C8, read off the inputs
ConfigMissing == env.server = None \/ env.device_token = None

BadShape ==
    /\ file.readable
    /\ file.content.t # "invalid"
    /\ LET root == file.content IN
       \/ root.t \notin {"array", "object"}
       \/ root.t = "array" /\ root.a = <<>>
       \/ root.t = "object" /\ "data" \notin DOMAIN root.o
       \/ root.t = "object" /\ "data" \in DOMAIN root.o
          /\ root.o["data"].t # "array"
       \/ root.t = "object" /\ "data" \in DOMAIN root.o
          /\ root.o["data"].t = "array" /\ root.o["data"].a = <<>>

\* C8: with a missing configuration variable, a root that is neither array
\* nor object, a data field that is missing or not an array, or no records,
\* main never gets to the send loop (it returns the error, or panics on a
\* short token) and nothing is attempted or posted; the send loop only runs
\* over a non-empty record sequence.
C8_StartupFailures ==
    /\ (ConfigMissing \/ BadShape
        => /\ pc \in {"load_config", "load_data", "failed", "panicked"}
           /\ attempted = <<>> /\ request = None /\ result = None)
    /\ (pc = "load_data" => ~ConfigMissing)
    /\ (pc \in LoopPcs => Len(data) >= 1)

\* C8 witness: the configuration loaded, the data array is empty, main
\* returned the error
C8_Witness ==
    /\ pc = "failed" /\ config # None
    /\ file = Readable(Object([data |-> Array(<<>>)]))

\* C9 as stated: the random key is the field's string exactly when the
\* field is present and a non-empty string.
C9_NonEmptyKey ==
    pc \in LoopPcs /\ file.content.t = "object"
    => random_key =
         LET obj == file.content.o IN
         IF "random_key" \in DOMAIN obj /\ obj["random_key"].t = "string"
            /\ obj["random_key"].s # ""
         THEN Some(obj["random_key"].s) ELSE None

\* C9 amended: for an object with a data array the loader returns the
\* records of the data array in order, and the random key is the field's
\* string exactly when the field is present and a string, the empty string
\* included; for a bare array it returns the elements in order and no key.
C9_Loader ==
    pc \in LoopPcs
    => LET root == file.content IN
       IF root.t = "array"
       THEN data = root.a /\ random_key = None
       ELSE /\ root.t = "object"
            /\ data = root.o["data"].a
            /\ random_key =
                 IF "random_key" \in DOMAIN root.o
                    /\ root.o["random_key"].t = "string"
                 THEN Some(root.o["random_key"].s) ELSE None

\* C9 witness: the file names the empty string and the loop runs with it
C9_Witness ==
    /\ pc = "send" /\ random_key = Some("")
    /\ data = <<RecEmptyKey, RecFlat>>

----------------------------------------------------------------------------
(* Properties of the transformer *)

\* the record of the last attempt of this round, and the values it posted
LastItem == data[attempted[Len(attempted)] + 1]
Posted == request.t = "some" /\ attempted # <<>>
PostedValues == request.x.body.o["values"].o

\* C10: in the values posted for a record, every top-level key (other than
\* send_time, which the dispatcher overwrites) whose value is a nested
\* object holding a number under the random key maps to an object with the
\* same fields, equal to the nested object on every field but the random
\* key, whose value is a number (for v = 5: an integer in 1..10); and in
\* every round the records are those loaded from the file.
C10_RandomFieldOnly ==
    /\ (Posted /\ random_key.t = "some"
        => \A key \in DOMAIN LastItem.o \ {"send_time"} :
              LET nested == LastItem.o[key]
                  rk == random_key.x
              IN (nested.t = "object" /\ rk \in DOMAIN nested.o
                  /\ nested.o[rk].t = "number")
                 => LET out == PostedValues[key] IN
                    /\ out.t = "object"
                    /\ DOMAIN out.o = DOMAIN nested.o
                    /\ \A f \in DOMAIN nested.o \ {rk} : out.o[f] = nested.o[f]
                    /\ out.o[rk].t = "number"
                    /\ (nested.o[rk] = IntNum(5)
                        => out.o[rk].n.k = "int" /\ out.o[rk].n.i \in 1..10))
    /\ (pc \in LoopPcs
        => data = IF file.content.t = "array" THEN file.content.a
                  ELSE file.content.o["data"].a)

\* C10 witness: in a later round {"sensor": {"v": 5, "unit": "C"}} is
\* posted with v = 10 and unit = "C"
C10_Witness ==
    /\ Posted /\ rounds >= 1 /\ random_key = Some("v")
    /\ LastItem = RecSensor
    /\ PostedValues["sensor"] = Object([v |-> IntNum(10), unit |-> String("C")])

\* the condition of C10 on a top-level value: a nested object holding a
\* number under the random key
Randomized(value, rkey) ==
    /\ rkey.t = "some"
    /\ value.t = "object"
    /\ rkey.x \in DOMAIN value.o
    /\ value.o[rkey.x].t = "number"

\* C11: the values posted for a record have the record's top-level keys
\* plus send_time, and every key (other than send_time) whose value is not
\* a nested object holding a number under the random key keeps the record's
\* value: non-objects, nested objects when no random key is configured,
\* when the key is absent from them, or when its value is not a number.
C11_RestUnchanged ==
    Posted
    => /\ DOMAIN PostedValues = DOMAIN LastItem.o \cup {"send_time"}
       /\ \A key \in DOMAIN LastItem.o \ {"send_time"} :
             ~Randomized(LastItem.o[key], random_key)
             => PostedValues[key] = LastItem.o[key]

\* C11 witness: with random key "v", RecMixed is posted with b (v is a
\* string), c (not an object) and d (no field v: u stays 5) as in the record
C11_Witness ==
    /\ Posted /\ random_key = Some("v") /\ LastItem = RecMixed
    /\ PostedValues["b"] = Object([v |-> String("x"), w |-> IntNum(2)])
    /\ PostedValues["c"] = Null
    /\ PostedValues["d"] = Object([u |-> IntNum(5)])

\* C12: the values of every POST hold send_time, the string of the time of
\* the send (the time field of the same envelope, formatted from the
\* envelope's clock reading), whatever send_time the record has itself.
C12_SendTimeInjected ==
    request.t = "some"
    => LET body == request.x.body.o
           values == body["values"].o
       IN /\ "send_time" \in DOMAIN values
          /\ values["send_time"] = String(FormatLocal(body["ts"].n.i \div 1000))
          /\ values["send_time"] = body["time"]

\* C12 witness: the record with its own send_time "old" is posted
C12_Witness ==
    /\ Posted /\ LastItem = RecFlat
    /\ LastItem.o["send_time"] = String("old")
    /\ PostedValues["send_time"] = String("1970-01-01 00:00:01")
    /\ result = Ok(Unit)

----------------------------------------------------------------------------
(* Properties of the counters, the pauses and the envelope *)

\* C16: sent_count is 0 when the loop starts, and a step either leaves it
\* unchanged or adds exactly 1, the latter exactly in the attempt that
\* returns Ok, which is one whose POST got a 2xx status; it is the number
\* of attempts of this round that did not fail added to its value at the
\* start of the round, and never more than the attempts made.
C16_SentCount ==
    /\ [](pc = "send" /\ rounds = 0 /\ attempted = <<>> => sent_count = 0)
    /\ [][\/ sent_count' = sent_count
          \/ /\ sent_count' = sent_count + 1
             /\ pc = "send"
             /\ result' = Ok(Unit)
             /\ request'.t = "some"
             /\ response'.t = "some" /\ response'.x.t = "ok"
             /\ response'.x.x >= 200 /\ response'.x.x <= 299]_vars
    /\ [][pc = "send" /\ result'.t = "ok" => sent_count' = sent_count + 1]_vars
    /\ [](pc \in LoopPcs
          => /\ sent_count = round_start + Len(attempted) - round_fails
             /\ sent_count <= Attempts)

\* C16 witness: a pass of one success, then a 404, then a transport error
C16_Witness ==
    /\ pc = "check" /\ Len(data) = 3 /\ sent_count = round_start + 1
    /\ round_fails = 2 /\ response = Some(Err("transport"))

\* C17: after an attempt the loop sleeps before the next record exactly
\* when interval > 0 and the record is not the last of the round, whatever
\* the attempt returned; after the last record it goes to the round-end
\* test; from there it goes to Done without a sleep or to the one sleep
\* between rounds, after which the next round starts; a round starts from
\* nowhere else.
C17_Pauses ==
    /\ [][pc = "send" /\ pc' # "panicked"
          => /\ (pc' = "sleep_item" <=> interval > 0 /\ index < Len(data) - 1)
             /\ (index = Len(data) - 1 => pc' = "check")]_vars
    /\ [][pc = "sleep_item" => pc' = "send" /\ index' = index + 1]_vars
    /\ [][pc = "check" => pc' \in {"done", "sleep_round"}]_vars
    /\ [][pc' = "done" => pc \in {"check", "done"}]_vars
    /\ [][pc = "sleep_round" => pc' = "send" /\ attempted' = <<>>]_vars
    /\ [][attempted # <<>> /\ attempted' = <<>> => pc = "sleep_round"]_vars

\* C17 witness: the sleep between two records after a failed attempt
C17_Witness ==
    pc = "sleep_item" /\ interval > 0 /\ result.t = "err" /\ index = 0

\* C18 as stated: the body of every POST has exactly the top-level fields
\* ts and values.
C18_TwoFields ==
    request.t = "some" => DOMAIN request.x.body.o = {"ts", "values"}

----------------------------------------------------------------------------
(* The send loop under fairness: the program is one thread, so as long as  *)
(* no call hangs the loop takes its next step.                             *)

FairSpec == Init /\ [][Next]_vars /\ WF_vars(Next)

\* C20: with count > 0, once the successful sends have brought sent_count
\* to count * N the loop reaches Done, unless the process panics before
\* the end of the round; a run with count > 0 that is never Done is one
\* whose sends stayed below the target.
C20_EventuallyDone ==
    (pc \in LoopPcs /\ count > 0 /\ sent_count >= count * Len(data))
        ~> (pc = "done" \/ pc = "panicked")

\* C20 witness: the target is reached while the loop sleeps between two
\* records
C20_Witness ==
    /\ pc = "sleep_item" /\ count > 0 /\ sent_count = count * Len(data)
    /\ rounds >= 1

----------------------------------------------------------------------------
(* generate_random_value alone, on every number of the model: one call on  *)
(* an original drawn from the integers I64_MIN..U64_MAX, the floats        *)
(* -MaxFloat..MaxFloat (in quarters) and two values that are no numbers.   *)

Originals ==
    {IntNum(i) : i \in I64_MIN..U64_MAX}
    \cup {FloatNum(q) : q \in -MaxFloat..MaxFloat}
    \cup {String("x"), Null}

SynthInit ==
    /\ original \in Originals
    /\ synthesized = None
    /\ pc = "synth"
    /\ env = [server |-> None, device_token |-> None]
    /\ file = [readable |-> FALSE, content |-> Null]
    /\ count = 0
    /\ interval = 0
    /\ config = None
    /\ data = <<>>
    /\ random_key = None
    /\ index = 0
    /\ sent_count = 0
    /\ result = None
    /\ request = None
    /\ response = None
    /\ rounds = 0
    /\ attempted = <<>>
    /\ round_start = 0
    /\ round_fails = 0

Synthesize ==
    /\ pc = "synth"
    /\ synthesized' \in generate_random_value(original)
    /\ pc' = "synth_done"
    /\ UNCHANGED <<original, env, file, count, interval, config, data,
                   random_key, index, sent_count, result, request, response,
                   rounds, attempted, round_start, round_fails>>

SynthNext == Synthesize

SynthSpec == SynthInit /\ [][SynthNext]_vars

IsInt(value) == value.t = "number" /\ value.n.k = "int"
IsFloat(value) == value.t = "number" /\ value.n.k = "float"

\* C13 as stated: for every integer original of the signed range the
\* synthesized value is an integer r with 1 <= r <= max(1, original * 2).
C13_IntegerRange ==
    (pc = "synth_done" /\ IsInt(original) /\ original.n.i <= I64_MAX
     /\ synthesized.t = "ok")
    => /\ IsInt(synthesized.x)
       /\ 1 <= synthesized.x.n.i
       /\ synthesized.x.n.i <= Max(1, original.n.i * 2)

\* C14 as stated: an integer original yields an integer, a float original
\* yields a float.
C14_SubtypePreserved ==
    (pc = "synth_done" /\ original.t = "number" /\ synthesized.t = "ok")
    => /\ synthesized.x.t = "number"
       /\ synthesized.x.n.k = original.n.k

\* C15 as stated: for every float original the call returns a float r with
\* 1.0 <= r <= upper_bound, upper_bound = original * 2 if original > 0 and
\* 100.0 otherwise.
C15_FloatRange ==
    (pc = "synth_done" /\ IsFloat(original))
    => /\ synthesized.t = "ok"
       /\ IsFloat(synthesized.x)
       /\ 4 <= synthesized.x.n.q
       /\ synthesized.x.n.q <= (IF original.n.q > 0 THEN original.n.q * 2
                                ELSE FloatFallbackMax)

====
